---------------------------- MODULE Spec2Model ----------------------------
(***************************************************************************)
(* RapidAnswer voice client: the scheduled playback engine                 *)
(* (useAudioPlayback), the capture/framing pipeline (useAudioRecording),   *)
(* the inbound message handler of App and the transport channel's          *)
(* reconnect policy, as state machines.                                    *)
(*                                                                         *)
(* Time is counted in units of 1/TimeScale second, so that a chunk's       *)
(* duration samples.length / sampleRate is an integer for the sample rates *)
(* used.  Strings are tuples of one-character strings.                     *)
(***************************************************************************)
EXTENDS Integers, Sequences, FiniteSets, TLC

VARIABLES
    \* ---- useAudioPlayback refs
    playbackContextRef,   \* 0 = null, else the index of an AudioContext in contexts
    nextPlayTimeRef,      \* nextPlayTimeRef.current
    activeSourcesRef,     \* activeSourcesRef.current: tuple of source indices
    \* ---- the Web Audio objects the hook has created
    contexts,             \* tuple of [state, currentTime]
    sources,              \* tuple of scheduled AudioBufferSourceNodes, in start() order
    pendingPlay,          \* calls of playPCMChunkScheduled suspended at await resume()
    \* ---- history
    flushes,              \* number of stopPlayback / cleanup calls so far
    calls,                \* number of playPCMChunkScheduled calls so far
    mounted,              \* FALSE once the component's unmount cleanup has run
    \* ---- App state and the channel as useWebSocket reports it
    recordingState,       \* "idle" | "recording" | "processing"
    error,                \* the surfaced error text, NoError for null
    readyState,           \* ReadyState of the channel
    reconnectCount,       \* reconnect attempts made since the last successful open
    reconnectTimer,       \* TRUE while a reconnect is scheduled (reconnectInterval)
    lastCloseCode,        \* code of the CloseEvent of the current socket, 0 = none
    wsRef,                \* the hand-rolled channel: the sockets created so far
                          \* (readyState of each), the one wsRef.current holds
                          \* (0 = null) and the reconnect timeouts pending
    \* ---- useAudioRecording refs
    streamRef,            \* 0 = null, else the recording whose MediaStream it holds
    sourceRef,            \* 0 = null, else the recording whose source node it holds
    processorRef,         \* 0 = null, else the recording whose processor it holds
    audioContextRef,      \* "null", "running" or "closed": the capture AudioContext
    recs,                 \* tuple of the recordings started, one per startRecording
    outbox,               \* what was handed to sendMessage / sendJsonMessage, in order
    \* ---- inbound messages
    delivered,            \* the messages the channel has delivered, in order
    pendingMessage,       \* index of the message last passed to setLastMessage and
                          \* not yet rendered, 0 = none
    lastMessage,          \* index of the rendered lastMessage, 0 = null
    handled,              \* indices of the messages handleMessage has run for, in order
    interimMessage,       \* << >> = null, else <<content>>
    streamingResponse,    \* the partial response text
    messages,             \* the message history
    serverTurn,           \* the turn the service is in (one more per barge-in signal)
    clientTurn,           \* one more per barge-in signal the handler has run for
    interims              \* the interim transcriptions the handler has run for

playbackVars == <<playbackContextRef, nextPlayTimeRef, activeSourcesRef, contexts,
                  sources, pendingPlay, flushes, calls, mounted>>

appVars == <<recordingState, error, readyState>>

recordingVars == <<streamRef, sourceRef, processorRef, audioContextRef, recs, outbox>>

channelVars == <<reconnectCount, reconnectTimer, lastCloseCode, wsRef>>

inboundVars == <<delivered, pendingMessage, lastMessage, handled, interimMessage,
                 streamingResponse, messages, serverTurn, clientTurn, interims>>

vars == <<playbackVars, appVars, recordingVars, channelVars, inboundVars>>

-----------------------------------------------------------------------------
\* Bounds of the model.
MaxChunks == 2       \* calls of playPCMChunkScheduled in one run
MaxFlushes == 1      \* calls of stopPlayback / cleanup in one run
MaxTime == 2         \* the output clocks stop advancing here

\* One second, in clock units: the least common multiple of the sample rates.
TimeScale == 2 * 24000

Max(a, b) == IF a >= b THEN a ELSE b
-----------------------------------------------------------------------------
(***************************************************************************)
(* Decoding of a chunk's payload: atob, new Uint8Array, new Int16Array.    *)
(***************************************************************************)
B64Alphabet ==
    << "A","B","C","D","E","F","G","H","I","J","K","L","M","N","O","P",
       "Q","R","S","T","U","V","W","X","Y","Z","a","b","c","d","e","f",
       "g","h","i","j","k","l","m","n","o","p","q","r","s","t","u","v",
       "w","x","y","z","0","1","2","3","4","5","6","7","8","9","+","/" >>

IsB64(c) == \E i \in 1..64 : B64Alphabet[i] = c

B64Index(c) == (CHOOSE i \in 1..64 : B64Alphabet[i] = c) - 1

\* atob removes up to two "=" from the end of an input whose length is a
\* multiple of four.
StripPadding(s) ==
    IF Len(s) > 0 /\ Len(s) % 4 = 0 /\ s[Len(s)] = "="
    THEN IF s[Len(s) - 1] = "=" THEN SubSeq(s, 1, Len(s) - 2)
                                ELSE SubSeq(s, 1, Len(s) - 1)
    ELSE s

\* atob throws InvalidCharacterError unless this holds.
AtobOk(s) ==
    LET t == StripPadding(s)
    IN  Len(t) % 4 # 1 /\ \A i \in 1..Len(t) : IsB64(t[i])

\* The 24 bits of the g-th group of four characters (missing ones count 0).
GroupBits(t, g) ==
    LET v(j) == IF 4 * g + j <= Len(t) THEN B64Index(t[4 * g + j]) ELSE 0
    IN  ((v(1) * 64 + v(2)) * 64 + v(3)) * 64 + v(4)

\* atob(s) as char codes, when AtobOk(s).
Atob(s) ==
    LET t == StripPadding(s)
        n == (Len(t) * 6) \div 8
        byte(k) == LET bits == GroupBits(t, (k - 1) \div 3)
                       r == (k - 1) % 3
                   IN  IF r = 0 THEN bits \div 65536
                       ELSE IF r = 1 THEN (bits \div 256) % 256
                       ELSE bits % 256
    IN  [k \in 1..n |-> byte(k)]

\* A view that takes any number of bytes.
Int16Ok_AnyLength(bytes) == TRUE

\* new Int16Array(pcmArray.buffer) throws RangeError on an odd byte length.
Int16Ok(bytes) == Len(bytes) % 2 = 0

\* The little-endian signed 16-bit samples of an even number of bytes.
Int16Samples(bytes) ==
    [i \in 1..(Len(bytes) \div 2) |->
        LET u == bytes[2 * i - 1] + 256 * bytes[2 * i]
        IN  IF u >= 32768 THEN u - 65536 ELSE u]

\* context.createBuffer(channels, length, sampleRate) throws NotSupportedError
\* for no frames, for no channels and for a rate outside the supported range.
CreateBufferOk(channels, length, sampleRate) ==
    /\ length > 0
    /\ channels >= 1 /\ channels <= 32
    /\ sampleRate >= 8000 /\ sampleRate <= 96000

\* Whether the body of playPCMChunkScheduled reaches source.start().
Decodable(pcmBase64, sampleRate, channels) ==
    /\ AtobOk(pcmBase64)
    /\ Int16Ok(Atob(pcmBase64))
    /\ CreateBufferOk(channels, Len(Int16Samples(Atob(pcmBase64))), sampleRate)

\* chunkDurationSeconds = samples.length / sampleRate, in clock units.
ChunkDuration(pcmBase64, sampleRate) ==
    (Len(Int16Samples(Atob(pcmBase64))) * TimeScale) \div sampleRate

-----------------------------------------------------------------------------
(***************************************************************************)
(* useAudioPlayback                                                        *)
(***************************************************************************)
NoContext == 0

\* The state a new AudioContext reports: "running", or "suspended" until the
\* rendering thread has started or the autoplay policy lets it start.
NewContextStates == {"suspended", "running"}

\* A start time that ignores the end of the chunk before.
StartTime_ClockOnly(currentTime, nextPlayTime) == currentTime

\* const startTime = Math.max(context.currentTime, nextPlayTimeRef.current)
StartTime(currentTime, nextPlayTime) == Max(currentTime, nextPlayTime)

\* nextPlayTimeRef.current = startTime + chunkDurationSeconds
NextPlayTime(startTime, chunkDuration) == startTime + chunkDuration

\* The refs the body of playPCMChunkScheduled reads and writes after the await.
Heap == [next |-> nextPlayTimeRef, active |-> activeSourcesRef, srcs |-> sources]

\* The body of playPCMChunkScheduled from atob to the end, for one call, on
\* the refs h, with the flush count at the time it runs.  A throw anywhere
\* before source.start() is caught and leaves the refs as they were.
ScheduleChunk(h, call, ctxs, epoch) ==
    IF ~Decodable(call.pcm, call.sampleRate, call.channels)
    THEN h
    ELSE LET now == ctxs[call.ctx].currentTime
             startTime == StartTime(now, h.next)
             duration == ChunkDuration(call.pcm, call.sampleRate)
             source == [ctx |-> call.ctx, startTime |-> startTime,
                        duration |-> duration, status |-> "scheduled",
                        notified |-> FALSE, now |-> now,
                        callEpoch |-> call.callEpoch, schedEpoch |-> epoch,
                        tag |-> call.tag]
         IN  [next |-> NextPlayTime(startTime, duration),
              active |-> Append(h.active, Len(h.srcs) + 1),
              srcs |-> Append(h.srcs, source)]

\* The continuations of the calls suspended on context c, run in call order.
RECURSIVE RunPending(_, _, _, _, _)
RunPending(h, pending, c, ctxs, epoch) ==
    IF pending = << >> THEN h
    ELSE IF Head(pending).ctx = c
         THEN RunPending(ScheduleChunk(h, Head(pending), ctxs, epoch),
                         Tail(pending), c, ctxs, epoch)
         ELSE RunPending(h, Tail(pending), c, ctxs, epoch)

NotOn(c, call) == call.ctx # c

\* playPCMChunkScheduled(pcmBase64, sampleRate, channels) up to its first
\* await, and to its end when the context is not suspended.
PlayCall(pcmBase64, sampleRate, channels, tag) ==
    LET needNew == playbackContextRef = NoContext
        c == IF needNew THEN Len(contexts) + 1 ELSE playbackContextRef
    IN  \E st \in (IF needNew THEN NewContextStates ELSE {"running"}) :
          LET ctxs == IF needNew
                      THEN Append(contexts, [state |-> st, currentTime |-> 0])
                      ELSE contexts
              h == [Heap EXCEPT !.next = IF needNew THEN ctxs[c].currentTime
                                                    ELSE nextPlayTimeRef]
              call == [ctx |-> c, pcm |-> pcmBase64,
                       sampleRate |-> sampleRate, channels |-> channels,
                       callEpoch |-> flushes, tag |-> tag]
              suspended == ctxs[c].state = "suspended"
              h2 == IF suspended THEN h ELSE ScheduleChunk(h, call, ctxs, flushes)
          IN  /\ contexts' = ctxs
              /\ playbackContextRef' = c
              /\ pendingPlay' = IF suspended THEN Append(pendingPlay, call)
                                             ELSE pendingPlay
              /\ nextPlayTimeRef' = h2.next
              /\ activeSourcesRef' = h2.active
              /\ sources' = h2.srcs
              /\ calls' = calls + 1
              /\ UNCHANGED flushes

\* context.resume() is fulfilled (or the new context starts by itself): the
\* context runs and the suspended calls continue, in order, before any other
\* task.
ResumeResolves(c) ==
    /\ contexts[c].state = "suspended"
    /\ LET ctxs == [contexts EXCEPT ![c].state = "running"]
           h == RunPending(Heap, pendingPlay, c, ctxs, flushes)
       IN  /\ contexts' = ctxs
           /\ nextPlayTimeRef' = h.next
           /\ activeSourcesRef' = h.active
           /\ sources' = h.srcs
    /\ pendingPlay' = SelectSeq(pendingPlay, LAMBDA call : NotOn(c, call))
    /\ UNCHANGED <<playbackContextRef, flushes, calls, mounted>>

\* The context was closed while calls were suspended on its resume(): the
\* promise is then either rejected (the catch drops the chunks) or was already
\* on its way to being fulfilled (the calls continue on the closed context).
ClosedSettles(c, fulfilled) ==
    /\ contexts[c].state = "closed"
    /\ \E i \in 1..Len(pendingPlay) : pendingPlay[i].ctx = c
    /\ LET h == IF fulfilled
                THEN RunPending(Heap, pendingPlay, c, contexts, flushes)
                ELSE Heap
       IN  /\ nextPlayTimeRef' = h.next
           /\ activeSourcesRef' = h.active
           /\ sources' = h.srcs
    /\ pendingPlay' = SelectSeq(pendingPlay, LAMBDA call : NotOn(c, call))
    /\ UNCHANGED <<playbackContextRef, contexts, flushes, calls, mounted>>

\* source.stop() on every tracked source; a throw is caught per source.
StopAll(srcs, active) ==
    [i \in 1..Len(srcs) |->
        IF (\E k \in 1..Len(active) : active[k] = i) /\ srcs[i].status = "scheduled"
        THEN [srcs[i] EXCEPT !.status = "stopped"]
        ELSE srcs[i]]

\* playbackContextRef.current.close(); playbackContextRef.current = null
CloseContext(ctxs, c) ==
    IF c = NoContext THEN ctxs ELSE [ctxs EXCEPT ![c].state = "closed"]

\* A stop that stops and closes, and leaves nextPlayTimeRef as it was.
StopPlaybackCall_KeepsNextPlayTime ==
    /\ sources' = StopAll(sources, activeSourcesRef)
    /\ activeSourcesRef' = << >>
    /\ contexts' = CloseContext(contexts, playbackContextRef)
    /\ playbackContextRef' = NoContext
    /\ flushes' = flushes + 1
    /\ UNCHANGED <<nextPlayTimeRef, pendingPlay, calls>>

\* A stop that stops the sources and resets the time, and leaves the
\* context open and referenced.
StopPlaybackCall_KeepsContext ==
    /\ sources' = StopAll(sources, activeSourcesRef)
    /\ activeSourcesRef' = << >>
    /\ nextPlayTimeRef' = 0
    /\ flushes' = flushes + 1
    /\ UNCHANGED <<playbackContextRef, contexts, pendingPlay, calls>>

\* stopPlayback()
StopPlaybackCall ==
    /\ sources' = StopAll(sources, activeSourcesRef)
    /\ activeSourcesRef' = << >>
    /\ nextPlayTimeRef' = 0
    /\ contexts' = CloseContext(contexts, playbackContextRef)
    /\ playbackContextRef' = NoContext
    /\ flushes' = flushes + 1
    /\ UNCHANGED <<pendingPlay, calls>>

\* cleanup() of useAudioPlayback
CleanupPlaybackCall ==
    /\ sources' = StopAll(sources, activeSourcesRef)
    /\ activeSourcesRef' = << >>
    /\ contexts' = CloseContext(contexts, playbackContextRef)
    /\ playbackContextRef' = NoContext
    /\ flushes' = flushes + 1
    /\ UNCHANGED <<nextPlayTimeRef, pendingPlay, calls>>

\* The sources the tracking list holds.
TrackedSources(active) == {active[k] : k \in 1..Len(active)}

\* A forEach whose try/catch is around the whole loop: the first throw ends
\* the loop and the sources after it are not stopped.
StopAllCaught_LoopAborts(srcs, active, throwing) ==
    [i \in 1..Len(srcs) |->
        IF i \in TrackedSources(active) /\ srcs[i].status = "scheduled"
        THEN IF i \in throwing
             THEN [srcs[i] EXCEPT !.status = "threw"]
             ELSE IF \E p \in 1..Len(active) :
                        /\ active[p] = i
                        /\ \A q \in 1..(p - 1) : active[q] \notin throwing
                  THEN [srcs[i] EXCEPT !.status = "stopped"]
                  ELSE srcs[i]
        ELSE srcs[i]]

\* activeSourcesRef.current.forEach(source => { try { source.stop() } catch
\* (e) {} }) when stop() throws for the sources in throwing.  A stop() that
\* throws leaves its source as it was; the status "threw" records the throw
\* (the source is on a context that the same call closes, so it never plays
\* to its end).
StopAllCaught(srcs, active, throwing) ==
    [i \in 1..Len(srcs) |->
        IF i \in TrackedSources(active) /\ srcs[i].status = "scheduled"
        THEN IF i \in throwing
             THEN [srcs[i] EXCEPT !.status = "threw"]
             ELSE [srcs[i] EXCEPT !.status = "stopped"]
        ELSE srcs[i]]

\* stopPlayback() when stop() throws for the sources in throwing
StopPlaybackThrowing(throwing) ==
    /\ sources' = StopAllCaught(sources, activeSourcesRef, throwing)
    /\ activeSourcesRef' = << >>
    /\ nextPlayTimeRef' = 0
    /\ contexts' = CloseContext(contexts, playbackContextRef)
    /\ playbackContextRef' = NoContext
    /\ flushes' = flushes + 1
    /\ UNCHANGED <<pendingPlay, calls>>

\* cleanup() of useAudioPlayback when stop() throws for the sources in
\* throwing
CleanupThrowing(throwing) ==
    /\ sources' = StopAllCaught(sources, activeSourcesRef, throwing)
    /\ activeSourcesRef' = << >>
    /\ contexts' = CloseContext(contexts, playbackContextRef)
    /\ playbackContextRef' = NoContext
    /\ flushes' = flushes + 1
    /\ UNCHANGED <<nextPlayTimeRef, pendingPlay, calls>>

\* splice(index, 1) without the test of the index: an index of -1 removes
\* the last element.
Untrack_NoGuard(active, i) ==
    IF \E k \in 1..Len(active) : active[k] = i
    THEN SelectSeq(active, LAMBDA k : k # i)
    ELSE SubSeq(active, 1, Len(active) - 1)

\* activeSourcesRef.current.splice(index, 1) when indexOf(source) > -1
Untrack(active, i) == SelectSeq(active, LAMBDA k : k # i)

\* source.onended: the source has played to its end, or it was stopped.
OnEnded(i) ==
    /\ ~sources[i].notified
    /\ \/ sources[i].status = "stopped"
       \/ /\ sources[i].status = "scheduled"
          /\ contexts[sources[i].ctx].state = "running"
          /\ contexts[sources[i].ctx].currentTime >=
                 sources[i].startTime + sources[i].duration
    /\ sources' = [sources EXCEPT ![i].notified = TRUE,
                                  ![i].status = IF @ = "scheduled" THEN "ended" ELSE @]
    /\ activeSourcesRef' = Untrack(activeSourcesRef, i)
    /\ UNCHANGED <<playbackContextRef, nextPlayTimeRef, contexts, pendingPlay,
                   flushes, calls, mounted>>

\* The output clock of a running context advances.
Tick(c) ==
    /\ contexts[c].state = "running"
    /\ contexts[c].currentTime < MaxTime
    /\ contexts' = [contexts EXCEPT ![c].currentTime = @ + 1]
    /\ UNCHANGED <<playbackContextRef, nextPlayTimeRef, activeSourcesRef, sources,
                   pendingPlay, flushes, calls, mounted>>


-----------------------------------------------------------------------------
(***************************************************************************)
(* useAudioRecording: capture and framing.                                 *)
(*                                                                         *)
(* Sample streams are counted in units of 64 samples, the greatest common  *)
(* divisor of the frame size (1600) and of the processor's buffer size     *)
(* (4096): one element of a sequence below stands for 64 consecutive       *)
(* samples, and carries one value.  A value v stands for the float v / 2,  *)
(* so that values beyond [-1.0, 1.0] and values that do not quantize to an *)
(* integer both occur.                                                     *)
(***************************************************************************)
NoError == "null"

\* pcmBuffer.length >= 1600
FrameSize == 1600 \div 64

\* createScriptProcessor(4096, 1, 1)
ScriptBufferSize == 4096 \div 64

\* A second, smaller batch size (1024 samples), for a source that delivers
\* less than a frame at a time.
SmallBatch == 16

BatchSizes == {ScriptBufferSize, SmallBatch}

MaxRecordings == 2   \* calls of startRecording that pass its guards
MaxCallbacks == 1    \* onaudioprocess batches of full size per recording

MaxCaptured == MaxCallbacks * ScriptBufferSize

\* The sample the microphone delivers at position i of a recording.
SampleValues == << 0, 1, -1, 2, -2, 3, -3 >>

SampleAt(i) == SampleValues[(i % 7) + 1]

\* The integer part of a / 2, towards zero, as a store into an Int16Array does.
TruncHalf(a) == IF a >= 0 THEN a \div 2 ELSE -((-a) \div 2)

\* pcm16[i] = Math.max(-32768, Math.min(32767, pcmBuffer[i] * 32767))
Quantize(v) ==
    LET scaled == v * 32767
    IN  IF scaled > 2 * 32767 THEN 32767
        ELSE IF scaled < 2 * (-32768) THEN -32768
        ELSE TruncHalf(scaled)

\* The Int16Array built from the whole of pcmBuffer.
ToPcm16(pcmBuffer) == [i \in 1..Len(pcmBuffer) |-> Quantize(pcmBuffer[i])]

\* if (pcmBuffer.length >= 1600)
FrameReady(pcmBuffer) == Len(pcmBuffer) >= FrameSize

\* sendMessage(pcmData.buffer): the frame is handed to the channel.
BinaryMessage(r, pcm16) ==
    [kind |-> "binary", rec |-> r, data |-> pcm16, state |-> readyState]

\* sendJsonMessage({ type: "user_audio_end" }), marked with the recording the
\* release of the button belongs to: the last one started.
JsonMessage(type) ==
    [kind |-> "json", rec |-> Len(recs), data |-> <<type>>, state |-> readyState]

\* A startRecording that does not look at the channel.
StartRecording_IgnoresChannel ==
    /\ mounted
    /\ IF recordingState # "idle"
       THEN UNCHANGED <<appVars, recordingVars>>
       ELSE /\ Len(recs) < MaxRecordings
            /\ error' = NoError
            /\ recordingState' = "recording"
            /\ recs' = Append(recs, [phase |-> "acquiring",
                                     seenReadyState |-> readyState,
                                     seenRecordingState |-> recordingState,
                                     streamLive |-> FALSE,
                                     connected |-> FALSE,
                                     pcmBuffer |-> << >>,
                                     captured |-> << >>])
            /\ UNCHANGED <<readyState, streamRef, sourceRef, processorRef,
                           audioContextRef, outbox>>
    /\ UNCHANGED <<playbackVars, channelVars, inboundVars>>

\* startRecording() up to await getUserMedia.  The callbacks it creates keep
\* the readyState and recordingState of the render startRecording came from.
StartRecording ==
    /\ mounted
    /\ IF recordingState # "idle"
       THEN UNCHANGED <<appVars, recordingVars>>
       ELSE IF readyState # "OPEN"
       THEN /\ error' = "WebSocket not connected. Please wait and try again."
            /\ UNCHANGED <<recordingState, readyState, recordingVars>>
       ELSE /\ Len(recs) < MaxRecordings
            /\ error' = NoError
            /\ recordingState' = "recording"
            /\ recs' = Append(recs, [phase |-> "acquiring",
                                     seenReadyState |-> readyState,
                                     seenRecordingState |-> recordingState,
                                     streamLive |-> FALSE,
                                     connected |-> FALSE,
                                     pcmBuffer |-> << >>,
                                     captured |-> << >>])
            /\ UNCHANGED <<readyState, streamRef, sourceRef, processorRef,
                           audioContextRef, outbox>>
    /\ UNCHANGED <<playbackVars, channelVars, inboundVars>>

\* getUserMedia is fulfilled: the rest of startRecording's try block.
GetUserMediaResolves(r) ==
    /\ recs[r].phase = "acquiring"
    /\ streamRef' = r
    /\ IF audioContextRef = "closed"
       THEN \* createMediaStreamSource throws on a closed context: the catch
            /\ recs' = [recs EXCEPT ![r].phase = "failed", ![r].streamLive = TRUE]
            /\ error' = "Failed to start recording"
            /\ recordingState' = "idle"
            /\ UNCHANGED <<sourceRef, processorRef, audioContextRef>>
       ELSE /\ audioContextRef' = "running"
            /\ sourceRef' = r
            /\ processorRef' = r
            /\ recs' = [recs EXCEPT ![r].phase = "capturing",
                                    ![r].streamLive = TRUE,
                                    ![r].connected = TRUE]
            /\ UNCHANGED <<error, recordingState>>
    /\ UNCHANGED <<playbackVars, channelVars, inboundVars, readyState, outbox>>

\* A catch that leaves the recording state as it is.
GetUserMediaRejects_StaysRecording(r) ==
    /\ recs[r].phase = "acquiring"
    /\ recs' = [recs EXCEPT ![r].phase = "failed"]
    /\ error' = "Failed to start recording"
    /\ UNCHANGED <<playbackVars, channelVars, inboundVars, readyState, streamRef,
                   sourceRef, processorRef, audioContextRef, outbox, recordingState>>

\* getUserMedia is rejected: the catch of startRecording.
GetUserMediaRejects(r) ==
    /\ recs[r].phase = "acquiring"
    /\ recs' = [recs EXCEPT ![r].phase = "failed"]
    /\ error' = "Failed to start recording"
    /\ recordingState' = "idle"
    /\ UNCHANGED <<playbackVars, channelVars, inboundVars, readyState, streamRef, sourceRef,
                   processorRef, audioContextRef, outbox>>

\* A callback that keeps only the newest batch.
Accumulate_NewestOnly(pcmBuffer, batch) == batch

\* for (...) pcmBuffer.push(inputData[i])
Accumulate(pcmBuffer, batch) == pcmBuffer \o batch

\* The number of samples delivered to onaudioprocess so far, over all recordings.
RECURSIVE TotalCaptured(_)
TotalCaptured(rs) ==
    IF rs = << >> THEN 0 ELSE Len(Head(rs).captured) + TotalCaptured(Tail(rs))

\* processor.onaudioprocess of recording r with a batch of n samples,
\* sendPCMData included.
OnAudioProcess(r, n) ==
    /\ recs[r].connected
    /\ audioContextRef = "running"
    /\ TotalCaptured(recs) + n <= MaxCaptured
    /\ LET base == Len(recs[r].captured)
           batch == [k \in 1..n |-> SampleAt(base + k)]
           pcmBuffer == Accumulate(recs[r].pcmBuffer, batch)
           ready == FrameReady(pcmBuffer)
           open == recs[r].seenReadyState = "OPEN"
       IN  /\ recs' = [recs EXCEPT ![r].captured = @ \o batch,
                                   ![r].pcmBuffer = IF ready THEN << >> ELSE pcmBuffer]
           /\ outbox' = IF ready /\ open
                        THEN Append(outbox, BinaryMessage(r, ToPcm16(pcmBuffer)))
                        ELSE outbox
           /\ IF ready /\ ~open /\ recs[r].seenRecordingState = "recording"
              THEN /\ error' = "Connection lost during recording"
                   /\ recordingState' = "idle"
              ELSE UNCHANGED <<error, recordingState>>
    /\ UNCHANGED <<playbackVars, channelVars, inboundVars, readyState, streamRef, sourceRef,
                   processorRef, audioContextRef>>

\* processorRef / sourceRef .disconnect() and streamRef tracks .stop(), each
\* when the ref is set, and the refs set to null.
ReleaseCapture(rs) ==
    [r \in 1..Len(rs) |->
        [rs[r] EXCEPT !.connected = IF r = processorRef \/ r = sourceRef
                                    THEN FALSE ELSE @,
                      !.streamLive = IF r = streamRef THEN FALSE ELSE @]]

\* stopRecording()
StopRecording ==
    /\ mounted
    /\ IF recordingState = "recording"
       THEN /\ recs' = ReleaseCapture(recs)
            /\ processorRef' = 0
            /\ sourceRef' = 0
            /\ streamRef' = 0
            /\ outbox' = IF readyState = "OPEN"
                         THEN Append(outbox, JsonMessage("user_audio_end"))
                         ELSE outbox
            /\ recordingState' = "idle"
            /\ UNCHANGED <<error, readyState, audioContextRef>>
       ELSE UNCHANGED <<appVars, recordingVars>>
    /\ UNCHANGED <<playbackVars, channelVars, inboundVars>>

\* forceCleanupAudio()
ForceCleanupAudioCall ==
    /\ recs' = ReleaseCapture(recs)
    /\ processorRef' = 0
    /\ sourceRef' = 0
    /\ streamRef' = 0
    /\ UNCHANGED <<audioContextRef, outbox>>

-----------------------------------------------------------------------------
(***************************************************************************)
(* The hook driven through the functions it returns.                       *)
(***************************************************************************)
\* A call made directly, outside any turn.
NoTag == [turn |-> 0, clientTurn |-> 0, interims |-> 0, tracked |-> {}]

\* base64 payloads: two samples, one sample, three bytes (an odd length),
\* and the empty string.
TwoSamples == << "A","Q","A","C","A","A","=","=" >>
OneSample == << "/","/","8","=" >>
OddBytes == << "A","A","A","A" >>
Empty == << >>

\* The chunks offered to the hook: payload and sample rate.
Chunks ==
    { <<TwoSamples, 24000>>, <<OneSample, 48000>>, <<OddBytes, 24000>> }

\* The state after the first render, with the channel in the given state.
Mounted(channelState) ==
    /\ playbackContextRef = NoContext
    /\ nextPlayTimeRef = 0
    /\ activeSourcesRef = << >>
    /\ contexts = << >>
    /\ sources = << >>
    /\ pendingPlay = << >>
    /\ flushes = 0
    /\ calls = 0
    /\ mounted = TRUE
    /\ recordingState = "idle"
    /\ error = NoError
    /\ readyState = channelState
    /\ reconnectCount = 0
    /\ reconnectTimer = FALSE
    /\ lastCloseCode = 0
    /\ wsRef = [sockets |-> <<"CONNECTING">>, current |-> 1, timers |-> 0]
    /\ streamRef = 0
    /\ sourceRef = 0
    /\ processorRef = 0
    /\ audioContextRef = "null"
    /\ recs = << >>
    /\ outbox = << >>
    /\ delivered = << >>
    /\ pendingMessage = 0
    /\ lastMessage = 0
    /\ handled = << >>
    /\ interimMessage = << >>
    /\ streamingResponse = << >>
    /\ messages = << >>
    /\ serverTurn = 1
    /\ clientTurn = 1
    /\ interims = 0

Init == Mounted("CONNECTING")

PlayPCMChunkScheduled ==
    /\ mounted
    /\ calls < MaxChunks
    /\ \E chunk \in Chunks : PlayCall(chunk[1], chunk[2], 1, NoTag)
    /\ UNCHANGED <<mounted, appVars, recordingVars, channelVars, inboundVars>>

StopPlayback ==
    /\ mounted
    /\ flushes < MaxFlushes
    /\ StopPlaybackCall
    /\ UNCHANGED <<mounted, appVars, recordingVars, channelVars, inboundVars>>

Cleanup ==
    /\ mounted
    /\ CleanupPlaybackCall
    /\ mounted' = FALSE
    /\ UNCHANGED <<appVars, recordingVars, channelVars, inboundVars>>

Resume ==
    /\ \E c \in 1..Len(contexts) : ResumeResolves(c)
    /\ UNCHANGED <<appVars, recordingVars, channelVars, inboundVars>>

Settle ==
    /\ \E c \in 1..Len(contexts), fulfilled \in BOOLEAN : ClosedSettles(c, fulfilled)
    /\ UNCHANGED <<appVars, recordingVars, channelVars, inboundVars>>

Ended ==
    /\ \E i \in 1..Len(sources) : OnEnded(i)
    /\ UNCHANGED <<appVars, recordingVars, channelVars, inboundVars>>

Clock ==
    /\ \E c \in 1..Len(contexts) : Tick(c)
    /\ UNCHANGED <<appVars, recordingVars, channelVars, inboundVars>>

NextPlayback ==
    \/ PlayPCMChunkScheduled
    \/ StopPlayback
    \/ Cleanup
    \/ Resume
    \/ Settle
    \/ Ended
    \/ Clock

SpecPlayback == Init /\ [][NextPlayback]_vars

\* stopPlayback() and cleanup() in an environment where source.stop() can
\* throw.
StopPlaybackMayThrow ==
    /\ mounted
    /\ flushes < MaxFlushes
    /\ \E throwing \in SUBSET TrackedSources(activeSourcesRef) :
          StopPlaybackThrowing(throwing)
    /\ UNCHANGED <<mounted, appVars, recordingVars, channelVars, inboundVars>>

CleanupMayThrow ==
    /\ mounted
    /\ \E throwing \in SUBSET TrackedSources(activeSourcesRef) :
          CleanupThrowing(throwing)
    /\ mounted' = FALSE
    /\ UNCHANGED <<appVars, recordingVars, channelVars, inboundVars>>

NextStopThrows ==
    \/ PlayPCMChunkScheduled
    \/ StopPlaybackMayThrow
    \/ CleanupMayThrow
    \/ Resume
    \/ Settle
    \/ Ended
    \/ Clock

SpecStopThrows == Init /\ [][NextStopThrows]_vars

\* stopPlayback() called again: one call more than StopPlayback allows, so
\* that a call can follow a call.
StopPlaybackAgain ==
    /\ mounted
    /\ flushes <= MaxFlushes
    /\ StopPlaybackCall
    /\ UNCHANGED <<mounted, appVars, recordingVars, channelVars, inboundVars>>

\* The hook driven by chunks and repeated calls of stopPlayback.
NextFlush ==
    \/ PlayPCMChunkScheduled
    \/ StopPlaybackAgain
    \/ Resume
    \/ Settle
    \/ Ended
    \/ Clock

SpecFlush == Init /\ [][NextFlush]_vars

-----------------------------------------------------------------------------
(***************************************************************************)
(* The channel: useWebSocket with the options App passes, and the          *)
(* callbacks of App it calls.                                              *)
(***************************************************************************)
\* reconnectAttempts: 10
reconnectAttempts == 10

\* closeEvent.code !== 1000
NormalClosure == 1000

\* Normal closure, going away, abnormal closure.
CloseCodes == {NormalClosure, 1001, 1006}

\* A policy that reconnects after every closure.
shouldReconnect_Always(code) == TRUE

\* shouldReconnect: (closeEvent) => closeEvent.code !== 1000
shouldReconnect(code) == code # NormalClosure

\* A limit that allows one attempt more.
AttemptsLeft_OneMore(count) == count <= reconnectAttempts

\* The reconnectAttempts option: a reconnect is scheduled only while fewer
\* attempts than that were made since the last open.
AttemptsLeft(count) == count < reconnectAttempts

\* The socket opens: onOpen.
SocketOpens ==
    /\ readyState = "CONNECTING"
    /\ readyState' = "OPEN"
    /\ reconnectCount' = 0
    /\ error' = NoError
    /\ UNCHANGED <<playbackVars, recordingVars, inboundVars, recordingState,
                   reconnectTimer, lastCloseCode, wsRef>>

\* An onError that surfaces the error and leaves the recording state.
SocketErrors_KeepsState ==
    /\ readyState \in {"CONNECTING", "OPEN"}
    /\ error' = "Connection error"
    /\ UNCHANGED <<playbackVars, recordingVars, channelVars, inboundVars, readyState,
                   recordingState>>

\* The socket reports an error: onError.
SocketErrors ==
    /\ readyState \in {"CONNECTING", "OPEN"}
    /\ error' = "Connection error"
    /\ recordingState' = "idle"
    /\ UNCHANGED <<playbackVars, recordingVars, channelVars, inboundVars, readyState>>

\* The socket closes with a code: onClose, then shouldReconnect and the
\* reconnectAttempts / reconnectInterval options.
SocketCloses(code) ==
    /\ readyState \in {"CONNECTING", "OPEN"}
    /\ readyState' = "CLOSED"
    /\ recordingState' = "idle"
    /\ lastCloseCode' = code
    /\ reconnectTimer' = (shouldReconnect(code) /\ AttemptsLeft(reconnectCount))
    /\ UNCHANGED <<playbackVars, recordingVars, inboundVars, error, reconnectCount,
                   wsRef>>

\* reconnectInterval has passed: the next attempt to connect.
ReconnectTimerFires ==
    /\ reconnectTimer
    /\ reconnectTimer' = FALSE
    /\ reconnectCount' = reconnectCount + 1
    /\ readyState' = "CONNECTING"
    /\ lastCloseCode' = 0
    /\ UNCHANGED <<playbackVars, recordingVars, inboundVars, recordingState, error,
                   wsRef>>

Closes == \E code \in CloseCodes : SocketCloses(code)

Acquired == \E r \in 1..Len(recs) : GetUserMediaResolves(r)

Denied == \E r \in 1..Len(recs) : GetUserMediaRejects(r)

AudioProcess == \E r \in 1..Len(recs), n \in BatchSizes : OnAudioProcess(r, n)

NextChannel ==
    \/ SocketOpens
    \/ SocketErrors
    \/ Closes
    \/ ReconnectTimerFires
    \/ StartRecording
    \/ Acquired
    \/ Denied
    \/ StopRecording

SpecChannel == Init /\ [][NextChannel]_vars

\* The channel is open and the component idle: the state in which the record
\* button is enabled.
InitCapture == Mounted("OPEN")

NextCapture ==
    \/ Closes
    \/ StartRecording
    \/ Acquired
    \/ Denied
    \/ AudioProcess
    \/ StopRecording

SpecCapture == InitCapture /\ [][NextCapture]_vars

-----------------------------------------------------------------------------
(***************************************************************************)
(* Inbound messages: lastMessage of useWebSocket and the effect of App     *)
(* that depends on it.                                                     *)
(***************************************************************************)
MaxMessages == 3     \* messages the channel delivers in one run

Message(type, text, complete, pcm, rate, turn) ==
    [type |-> type, text |-> text, ai_response |-> <<"r">>,
     is_complete |-> complete, pcm_chunk |-> pcm,
     sample_rate |-> rate, channels |-> 1, turn |-> turn]

\* The messages the service sends while it is in turn t: text messages, the
\* barge-in signal, and audio chunks of turn t or of the turn before it.
Inbound(t) ==
    { Message("interim_transcription", <<"h">>, FALSE, Empty, 0, t),
      Message("ai_response_stream", <<"a">>, FALSE, Empty, 0, t),
      Message("ai_response_stream", << >>, TRUE, Empty, 0, t),
      Message("voice_response", <<"h">>, FALSE, Empty, 0, t),
      Message("stop_audio_playback", << >>, FALSE, Empty, 0, t),
      Message("error", "Service error", FALSE, Empty, 0, t) }
    \cup { Message("audio_stream_pcm", << >>, FALSE, pcm, 24000, u) :
             pcm \in {TwoSamples, OddBytes, Empty}, u \in {t - 1, t} \ {0} }

\* The audio_stream_pcm messages among ms.
ChunkMessages(ms) == SelectSeq(ms, LAMBDA m : m.type = "audio_stream_pcm")

\* The socket's onmessage in useWebSocket: setLastMessage(message).  The new
\* value replaces one that was set and not yet rendered.
Deliver ==
    /\ mounted
    /\ readyState = "OPEN"
    /\ Len(delivered) < MaxMessages
    /\ \E m \in Inbound(serverTurn) :
         /\ m.type = "audio_stream_pcm" => Len(ChunkMessages(delivered)) < MaxChunks
         /\ delivered' = Append(delivered, m)
         /\ serverTurn' = IF m.type = "stop_audio_playback"
                          THEN serverTurn + 1 ELSE serverTurn
    /\ pendingMessage' = Len(delivered) + 1
    /\ UNCHANGED <<playbackVars, appVars, recordingVars, channelVars, lastMessage,
                   handled, interimMessage, streamingResponse, messages,
                   clientTurn, interims>>

\* The indices of the tracked sources.
Tracked == { activeSourcesRef[k] : k \in 1..Len(activeSourcesRef) }

\* if (data.pcm_chunk): anything but the empty string
HasPayload_Always(data) == TRUE

HasPayload(data) == data.pcm_chunk # Empty

\* The two setMessages calls of the voice_response case, the assistant's
\* record put first.
AppendExchange_AssistantFirst(history, data) ==
    history \o << [type |-> "assistant", content |-> data.ai_response],
                  [type |-> "user", content |-> data.text] >>

\* A voice_response case that adds the user's record only.
AppendExchange_UserOnly(history, data) ==
    history \o << [type |-> "user", content |-> data.text] >>

\* setMessages((prev) => [...prev, user]); setMessages((prev) => [...prev, assistant])
AppendExchange(history, data) ==
    history \o << [type |-> "user", content |-> data.text],
                  [type |-> "assistant", content |-> data.ai_response] >>

\* case "voice_response"
OnVoiceResponse(data) ==
    /\ ForceCleanupAudioCall
    /\ interimMessage' = << >>
    /\ streamingResponse' = << >>
    /\ messages' = AppendExchange(messages, data)
    /\ recordingState' = "idle"
    /\ UNCHANGED <<playbackVars, error, readyState>>

\* An error case that leaves the interim text on display.
OnServiceError_KeepsInterim(data) ==
    /\ error' = data.text
    /\ recordingState' = "idle"
    /\ streamingResponse' = << >>
    /\ UNCHANGED <<playbackVars, recordingVars, readyState, messages,
                   interimMessage>>

\* case "error"
OnServiceError(data) ==
    /\ error' = data.text
    /\ recordingState' = "idle"
    /\ interimMessage' = << >>
    /\ streamingResponse' = << >>
    /\ UNCHANGED <<playbackVars, recordingVars, readyState, messages>>

\* An interim case that adds the partial text to the one on display.
OnInterimTranscription_Appends(data) ==
    /\ interimMessage' = interimMessage \o <<data.text>>
    /\ UNCHANGED <<playbackVars, appVars, recordingVars, streamingResponse,
                   messages>>

\* case "interim_transcription"
OnInterimTranscription(data) ==
    /\ interimMessage' = <<data.text>>
    /\ UNCHANGED <<playbackVars, appVars, recordingVars, streamingResponse,
                   messages>>

\* handleMessage: the switch on data.type.
HandleMessage(data) ==
    CASE data.type = "interim_transcription" -> OnInterimTranscription(data)
      [] data.type = "ai_response_stream" ->
           /\ streamingResponse' = IF data.is_complete THEN << >>
                                   ELSE streamingResponse \o data.text
           /\ UNCHANGED <<playbackVars, appVars, recordingVars, interimMessage,
                          messages>>
      [] data.type = "audio_stream_pcm" ->
           /\ IF HasPayload(data)
              THEN /\ PlayCall(data.pcm_chunk, data.sample_rate, data.channels,
                               [turn |-> data.turn, clientTurn |-> clientTurn,
                                interims |-> interims, tracked |-> Tracked])
                   /\ UNCHANGED mounted
              ELSE UNCHANGED playbackVars
           /\ UNCHANGED <<appVars, recordingVars, interimMessage,
                          streamingResponse, messages>>
      [] data.type = "voice_response" -> OnVoiceResponse(data)
      [] data.type = "error" -> OnServiceError(data)
      [] OTHER ->
           \* default: console.warn("Unknown message type:", data.type)
           UNCHANGED <<playbackVars, appVars, recordingVars, interimMessage,
                       streamingResponse, messages>>

\* The render that follows setLastMessage, and the effect on [lastMessage] it
\* commits: handleMessage() for the value lastMessage holds in that render.
LastMessageEffect ==
    /\ mounted
    /\ pendingMessage # 0
    /\ lastMessage' = pendingMessage
    /\ pendingMessage' = 0
    /\ handled' = Append(handled, pendingMessage)
    /\ HandleMessage(delivered[pendingMessage])
    /\ clientTurn' = IF delivered[pendingMessage].type = "stop_audio_playback"
                     THEN clientTurn + 1 ELSE clientTurn
    /\ interims' = IF delivered[pendingMessage].type = "interim_transcription"
                   THEN interims + 1 ELSE interims
    /\ UNCHANGED <<channelVars, delivered, serverTurn>>

\* cleanup() of useAudioRecording
CleanupRecordingCall ==
    /\ recs' = [r \in 1..Len(recs) |->
                  [recs[r] EXCEPT !.connected = IF r = processorRef \/ r = sourceRef
                                                THEN FALSE ELSE @]]
    /\ audioContextRef' = IF audioContextRef = "null" THEN "null" ELSE "closed"
    /\ UNCHANGED <<streamRef, sourceRef, processorRef, outbox>>

\* The component unmounts: cleanupRecording(); cleanupPlayback()
Unmount ==
    /\ mounted
    /\ CleanupRecordingCall
    /\ CleanupPlaybackCall
    /\ mounted' = FALSE
    /\ UNCHANGED <<appVars, channelVars, inboundVars>>

\* The service sends a message that carries no audio.
DeliverText ==
    /\ Deliver
    /\ delivered'[Len(delivered')].type \in
           {"interim_transcription", "ai_response_stream", "voice_response", "error"}

\* The session without response audio: the record button and the messages
\* about the turn.
NextSession ==
    \/ DeliverText
    \/ LastMessageEffect
    \/ StartRecording
    \/ Acquired
    \/ StopRecording

SpecSession == InitCapture /\ [][NextSession]_vars

\* The messages about the turn alone: any sequence of inbound text events.
NextMessages ==
    \/ DeliverText
    \/ LastMessageEffect

SpecMessages == InitCapture /\ [][NextMessages]_vars

NextInbound ==
    \/ Deliver
    \/ LastMessageEffect
    \/ Resume
    \/ Settle
    \/ Ended
    \/ Clock
    \/ Unmount

SpecInbound == InitCapture /\ [][NextInbound]_vars

-----------------------------------------------------------------------------
(***************************************************************************)
(* App.tsx: the record button whose release waits for the service, and the *)
(* "Dev: Test Input" button.                                               *)
(***************************************************************************)
\* stopRecording() of App.tsx: the release of the record button, which is
\* disabled while the state is "processing" or the channel is not open.
StopRecordingApp ==
    /\ mounted
    /\ readyState = "OPEN"
    /\ IF recordingState = "recording"
       THEN /\ recs' = ReleaseCapture(recs)
            /\ processorRef' = 0
            /\ sourceRef' = 0
            /\ streamRef' = 0
            /\ outbox' = IF readyState = "OPEN"
                         THEN Append(outbox, JsonMessage("user_audio_end"))
                         ELSE outbox
            /\ recordingState' = "processing"
            /\ UNCHANGED <<error, readyState, audioContextRef>>
       ELSE UNCHANGED <<appVars, recordingVars>>
    /\ UNCHANGED <<playbackVars, channelVars, inboundVars>>

\* The channel and the record button of App.tsx, with no answer from the
\* service: a released recording stays "processing" until the channel closes
\* or fails.
NextTransport ==
    \/ SocketOpens
    \/ SocketErrors
    \/ Closes
    \/ ReconnectTimerFires
    \/ StartRecording
    \/ Acquired
    \/ StopRecordingApp

SpecTransport == Init /\ [][NextTransport]_vars

\* One chunk of /eval_data/test.pcm: pcmArray.slice(i, i + chunkSize)
TestChunk == [k \in 1..FrameSize |-> 0]

\* testWithHardcodedAudio / sendTestAudio up to "await fetch": a click on the
\* test button, which is disabled only while the state is "processing".  The
\* call keeps the readyState of the render it came from.
TestWithHardcodedAudio ==
    /\ mounted
    /\ recordingState # "processing"
    /\ IF recordingState # "idle"
       THEN UNCHANGED <<appVars, recordingVars>>
       ELSE /\ Len(recs) < MaxRecordings
            /\ error' = NoError
            /\ recordingState' = "recording"
            /\ recs' = Append(recs, [phase |-> "testLoading",
                                     seenReadyState |-> readyState,
                                     seenRecordingState |-> recordingState,
                                     streamLive |-> FALSE,
                                     connected |-> FALSE,
                                     pcmBuffer |-> << >>,
                                     captured |-> << >>])
            /\ UNCHANGED <<readyState, streamRef, sourceRef, processorRef,
                           audioContextRef, outbox>>
    /\ UNCHANGED <<playbackVars, channelVars, inboundVars>>

\* The test audio has loaded.  With a readyState of OPEN in the call, the
\* first chunk is sent and the call waits 100 ms; otherwise nothing is sent,
\* nothing is awaited and the call runs to its end.
TestAudioLoaded(r) ==
    /\ recs[r].phase = "testLoading"
    /\ IF recs[r].seenReadyState = "OPEN"
       THEN /\ outbox' = Append(outbox, BinaryMessage(r, TestChunk))
            /\ recs' = [recs EXCEPT ![r].phase = "testSending"]
            /\ UNCHANGED recordingState
       ELSE /\ recordingState' = "processing"
            /\ recs' = [recs EXCEPT ![r].phase = "testDone"]
            /\ UNCHANGED outbox
    /\ UNCHANGED <<playbackVars, channelVars, inboundVars, error, readyState,
                   streamRef, sourceRef, processorRef, audioContextRef>>

\* The last chunk was sent: sendJsonMessage({ type: "user_audio_end" }) and
\* setRecordingState("processing").
TestAudioEnds(r) ==
    /\ recs[r].phase = "testSending"
    /\ outbox' = Append(outbox, [JsonMessage("user_audio_end") EXCEPT !.rec = r])
    /\ recordingState' = "processing"
    /\ recs' = [recs EXCEPT ![r].phase = "testDone"]
    /\ UNCHANGED <<playbackVars, channelVars, inboundVars, error, readyState,
                   streamRef, sourceRef, processorRef, audioContextRef>>

\* fetch or arrayBuffer is rejected, or the Int16Array cannot be built: the
\* catch.
TestAudioFails(r) ==
    /\ recs[r].phase = "testLoading"
    /\ recs' = [recs EXCEPT ![r].phase = "failed"]
    /\ error' = "Test failed"
    /\ recordingState' = "idle"
    /\ UNCHANGED <<playbackVars, channelVars, inboundVars, readyState, streamRef,
                   sourceRef, processorRef, audioContextRef, outbox>>

\* The user_audio_end messages handed to the channel while it was open.
AudioEnds(box) ==
    SelectSeq(box, LAMBDA m : /\ m.kind = "json"
                              /\ m.data = <<"user_audio_end">>
                              /\ m.state = "OPEN")

\* The messages that answer a user_audio_end.
Answers(ms) == SelectSeq(ms, LAMBDA m : m.type \in {"voice_response", "error"})

\* The service answers a user_audio_end it has received and not yet answered.
ServiceAnswers ==
    /\ Len(Answers(delivered)) < Len(AudioEnds(outbox))
    /\ Deliver
    /\ delivered'[Len(delivered')].type \in {"voice_response", "error"}

TestLoaded == \E r \in 1..Len(recs) : TestAudioLoaded(r)

TestEnds == \E r \in 1..Len(recs) : TestAudioEnds(r)

TestFails == \E r \in 1..Len(recs) : TestAudioFails(r)

NextApp ==
    \/ SocketOpens
    \/ Closes
    \/ StartRecording
    \/ Acquired
    \/ StopRecordingApp
    \/ TestWithHardcodedAudio
    \/ TestLoaded
    \/ TestEnds
    \/ TestFails
    \/ ServiceAnswers
    \/ LastMessageEffect

\* One connection, from connecting to its close.  The socket opens when it
\* can, timers and promises settle, the service
\* answers every user_audio_end it received, and a message that arrived is
\* rendered.  Nothing is assumed of the user or of the channel closing.
SpecApp ==
    /\ Init
    /\ [][NextApp]_vars
    /\ WF_vars(SocketOpens)
    /\ WF_vars(TestLoaded \/ TestFails)
    /\ WF_vars(TestEnds)
    /\ WF_vars(ServiceAnswers)
    /\ WF_vars(LastMessageEffect)

-----------------------------------------------------------------------------
(***************************************************************************)
(* The hand-rolled channel: wsRef, initWebSocket and sendPCMData of the    *)
(* App that opens its own WebSocket.                                       *)
(***************************************************************************)
MaxSockets == 3      \* WebSocket objects created in one run

\* wsRef.current?.readyState === WebSocket.OPEN
CurrentIsOpen(w) == w.current # 0 /\ w.sockets[w.current] = "OPEN"

\* initWebSocket(): nothing when the current socket is open, else a new
\* socket that becomes the current one.  The socket it replaces is not closed.
InitWebSocket(w) ==
    IF CurrentIsOpen(w) THEN w
    ELSE [w EXCEPT !.sockets = Append(@, "CONNECTING"),
                   !.current = Len(w.sockets) + 1]

\* A call of initWebSocket is modelled while it can still create a socket.
CanInit(w) == CurrentIsOpen(w) \/ Len(w.sockets) < MaxSockets

\* ws.onopen of socket i
OwnSocketOpens(i) ==
    /\ wsRef.sockets[i] = "CONNECTING"
    /\ wsRef' = [wsRef EXCEPT !.sockets[i] = "OPEN"]
    /\ error' = NoError
    /\ UNCHANGED <<playbackVars, recordingVars, inboundVars, recordingState,
                   readyState, reconnectCount, reconnectTimer, lastCloseCode>>

\* ws.onerror of socket i
OwnSocketErrors(i) ==
    /\ wsRef.sockets[i] \in {"CONNECTING", "OPEN"}
    /\ error' = "Connection error"
    /\ recordingState' = "idle"
    /\ UNCHANGED <<playbackVars, recordingVars, inboundVars, channelVars, readyState>>

\* ws.onclose of socket i with a close code: the state goes to idle and,
\* unless the closure was normal, a reconnect timeout of 2 seconds is set.
OwnSocketCloses(i, code) ==
    /\ wsRef.sockets[i] \in {"CONNECTING", "OPEN"}
    /\ wsRef' = [wsRef EXCEPT !.sockets[i] = "CLOSED",
                              !.timers = IF code # NormalClosure THEN @ + 1 ELSE @]
    /\ recordingState' = "idle"
    /\ UNCHANGED <<playbackVars, recordingVars, inboundVars, error, readyState,
                   reconnectCount, reconnectTimer, lastCloseCode>>

\* A reconnect timeout fires: initWebSocket() unless the current socket is
\* open.
OwnReconnectTimerFires ==
    /\ wsRef.timers > 0
    /\ CanInit(wsRef)
    /\ wsRef' = [InitWebSocket(wsRef) EXCEPT !.timers = @ - 1]
    /\ UNCHANGED <<playbackVars, appVars, recordingVars, inboundVars,
                   reconnectCount, reconnectTimer, lastCloseCode>>

\* startRecording() of that App up to await getUserMedia: it does not look
\* at the channel.
OwnStartRecording ==
    /\ mounted
    /\ IF recordingState # "idle"
       THEN UNCHANGED <<appVars, recordingVars>>
       ELSE /\ Len(recs) < MaxRecordings
            /\ error' = NoError
            /\ recordingState' = "recording"
            /\ recs' = Append(recs, [phase |-> "acquiring",
                                     seenReadyState |-> readyState,
                                     seenRecordingState |-> recordingState,
                                     streamLive |-> FALSE,
                                     connected |-> FALSE,
                                     pcmBuffer |-> << >>,
                                     captured |-> << >>])
            /\ UNCHANGED <<readyState, streamRef, sourceRef, processorRef,
                           audioContextRef, outbox>>
    /\ UNCHANGED <<playbackVars, channelVars, inboundVars>>

\* processor.onaudioprocess of recording r with a full batch, and the
\* sendPCMData it calls: the frame is sent on the current socket when that is
\* open; otherwise the frame is dropped and initWebSocket() is called.
OwnOnAudioProcess(r) ==
    /\ recs[r].connected
    /\ audioContextRef = "running"
    /\ TotalCaptured(recs) + ScriptBufferSize <= MaxCaptured
    /\ CanInit(wsRef)
    /\ LET base == Len(recs[r].captured)
           batch == [k \in 1..ScriptBufferSize |-> SampleAt(base + k)]
       IN  /\ recs' = [recs EXCEPT ![r].captured = @ \o batch]
           /\ outbox' = IF CurrentIsOpen(wsRef)
                        THEN Append(outbox, [BinaryMessage(r, ToPcm16(batch))
                                               EXCEPT !.state = "OPEN"])
                        ELSE outbox
    /\ wsRef' = InitWebSocket(wsRef)
    /\ UNCHANGED <<playbackVars, appVars, inboundVars, streamRef, sourceRef,
                   processorRef, audioContextRef, reconnectCount, reconnectTimer,
                   lastCloseCode>>

OwnOpens == \E i \in 1..Len(wsRef.sockets) : OwnSocketOpens(i)

OwnErrors == \E i \in 1..Len(wsRef.sockets) : OwnSocketErrors(i)

OwnCloses == \E i \in 1..Len(wsRef.sockets), code \in CloseCodes : OwnSocketCloses(i, code)

OwnAudioProcess == \E r \in 1..Len(recs) : OwnOnAudioProcess(r)

NextOwnChannel ==
    \/ OwnOpens
    \/ OwnErrors
    \/ OwnCloses
    \/ OwnReconnectTimerFires
    \/ OwnStartRecording
    \/ Acquired
    \/ OwnAudioProcess

\* The state after the mount effect has called initWebSocket().
SpecOwnChannel == Init /\ [][NextOwnChannel]_vars

-----------------------------------------------------------------------------
(***************************************************************************)
(* utils/testUtils.ts: sendTestAudio.  Sample counts are in the unit of    *)
(* the capture model, so that chunkSize is FrameSize.                      *)
(***************************************************************************)
\* The lengths of /eval_data/new_test.pcm tried: empty, exactly one chunk,
\* and one chunk and a rest.
TestFileLengths == {0, FrameSize, FrameSize + 10}

\* new Int16Array(testPCMBuffer): the samples of the file, each one different
\* from the others.
PcmArray(n) == [k \in 1..n |-> k]

\* A slice that is sent only when it is full.
Slice_FullOnly(pcmArray, i) ==
    IF i + FrameSize <= Len(pcmArray)
    THEN SubSeq(pcmArray, i + 1, i + FrameSize)
    ELSE << >>

\* pcmArray.slice(i, i + chunkSize), with i counted from 0
Slice(pcmArray, i) ==
    SubSeq(pcmArray, i + 1,
           IF i + FrameSize <= Len(pcmArray) THEN i + FrameSize ELSE Len(pcmArray))

\* sendTestAudio(params) up to "await fetch".  The call keeps the readyState
\* it was given.
SendTestAudioCall ==
    /\ mounted
    /\ IF readyState # "OPEN"
       THEN UNCHANGED <<error, recs>>
       ELSE /\ Len(recs) < MaxRecordings
            /\ error' = NoError
            /\ recs' = Append(recs, [phase |-> "loading",
                                     seenReadyState |-> readyState,
                                     pcmArray |-> << >>,
                                     i |-> 0])
    /\ UNCHANGED <<playbackVars, channelVars, inboundVars, recordingState,
                   readyState, streamRef, sourceRef, processorRef,
                   audioContextRef, outbox>>

\* One pass of the for loop of call r from index i, up to its await, and the
\* end of the function when the loop is over.
SendLoop(r, pcmArray, i) ==
    IF i < Len(pcmArray)
    THEN /\ outbox' = Append(outbox, BinaryMessage(r, Slice(pcmArray, i)))
         /\ recs' = [recs EXCEPT ![r].phase = "sending",
                                 ![r].pcmArray = pcmArray,
                                 ![r].i = i]
    ELSE /\ outbox' = Append(outbox,
                             [JsonMessage("user_audio_end") EXCEPT !.rec = r])
         /\ recs' = [recs EXCEPT ![r].phase = "done",
                                 ![r].pcmArray = pcmArray,
                                 ![r].i = i]

\* The file of n samples has loaded: the loop starts at i = 0.
TestFileLoaded(r, n) ==
    /\ recs[r].phase = "loading"
    /\ SendLoop(r, PcmArray(n), 0)
    /\ UNCHANGED <<playbackVars, appVars, channelVars, inboundVars, streamRef,
                   sourceRef, processorRef, audioContextRef>>

\* The 100 ms wait after a chunk is over: i += chunkSize and the next pass.
TestChunkTimer(r) ==
    /\ recs[r].phase = "sending"
    /\ SendLoop(r, recs[r].pcmArray, recs[r].i + FrameSize)
    /\ UNCHANGED <<playbackVars, appVars, channelVars, inboundVars, streamRef,
                   sourceRef, processorRef, audioContextRef>>

\* fetch or arrayBuffer is rejected, or the Int16Array cannot be built: the
\* catch.
TestFileFails(r) ==
    /\ recs[r].phase = "loading"
    /\ recs' = [recs EXCEPT ![r].phase = "failed"]
    /\ error' = "Test failed"
    /\ UNCHANGED <<playbackVars, channelVars, inboundVars, recordingState,
                   readyState, streamRef, sourceRef, processorRef,
                   audioContextRef, outbox>>

FileLoaded == \E r \in 1..Len(recs), n \in TestFileLengths : TestFileLoaded(r, n)

ChunkTimer == \E r \in 1..Len(recs) : TestChunkTimer(r)

FileFails == \E r \in 1..Len(recs) : TestFileFails(r)

NextTestAudio ==
    \/ SendTestAudioCall
    \/ FileLoaded
    \/ ChunkTimer
    \/ FileFails
    \/ Closes

SpecTestAudio == InitCapture /\ [][NextTestAudio]_vars

-----------------------------------------------------------------------------
(***************************************************************************)
(* Properties.                                                             *)
(***************************************************************************)
\* Sources i and i+1 with no stopPlayback between the call that scheduled
\* chunk i and the scheduling of chunk i+1.
SameRun(i) == sources[i].callEpoch = sources[i + 1].schedEpoch

End(i) == sources[i].startTime + sources[i].duration

\* C1: once the handler has run for a stop_audio_playback message, no unit
\* scheduled before it is still tracked when a later audio_stream_pcm message
\* is scheduled.
C1_FlushedOnStopSignal ==
    \A j \in 1..Len(sources) : \A i \in sources[j].tag.tracked :
        sources[i].tag.clientTurn = sources[j].tag.clientTurn

\* C2 as stated: of two chunks scheduled one after the other with no
\* stopPlayback in between, the second starts where the first ends.
C2_StartsWherePreviousEnds ==
    \A i \in 1..(Len(sources) - 1) :
        SameRun(i) => sources[i + 1].startTime = End(i)

\* C2: of two chunks scheduled one after the other with no stopPlayback in
\* between, the second starts where the first ends, or at the output clock's
\* time when it is scheduled if the clock has passed that end.
C2_StartsAtEndOrClock ==
    \A i \in 1..(Len(sources) - 1) :
        SameRun(i) => sources[i + 1].startTime = Max(sources[i + 1].now, End(i))

\* Two chunks back to back, the second scheduled while the clock has moved
\* and the first has not yet played to its end.
C2_Witness ==
    \E i \in 1..(Len(sources) - 1) :
        /\ SameRun(i)
        /\ sources[i + 1].now > 0
        /\ sources[i + 1].now < End(i)
        /\ sources[i + 1].startTime = End(i)

\* C3: when stopPlayback returns, every source that was tracked is stopped,
\* the tracking list is empty, nextPlayTimeRef is 0, and the context is closed
\* and forgotten; the next call of playPCMChunkScheduled creates a new context.
C3_StopPlaybackTearsDown ==
    [][ /\ (flushes' = flushes + 1 /\ mounted') =>
             /\ \A k \in 1..Len(activeSourcesRef) :
                    sources'[activeSourcesRef[k]].status = "stopped"
             /\ activeSourcesRef' = << >>
             /\ nextPlayTimeRef' = 0
             /\ playbackContextRef' = NoContext
             /\ playbackContextRef # NoContext =>
                    contexts'[playbackContextRef].state = "closed"
        /\ (calls' = calls + 1 /\ playbackContextRef = NoContext) =>
             /\ Len(contexts') = Len(contexts) + 1
             /\ playbackContextRef' = Len(contexts')
             /\ contexts'[playbackContextRef'].state # "closed" ]_vars

\* stopPlayback has stopped a source and closed its context, and a later chunk
\* is scheduled on a new context.
C3_Witness ==
    /\ mounted
    /\ flushes = 1
    /\ \E i \in 1..Len(sources) :
         /\ sources[i].status = "stopped"
         /\ contexts[sources[i].ctx].state = "closed"
         /\ \E j \in 1..Len(sources) :
              /\ sources[j].ctx = playbackContextRef
              /\ sources[j].ctx # sources[i].ctx
              /\ sources[j].callEpoch = 1

\* C4: no chunk of a turn that a handled barge-in signal has ended is
\* scheduled.
C4_NoStaleTurnScheduled ==
    \A j \in 1..Len(sources) : sources[j].tag.turn >= sources[j].tag.clientTurn

\* C5: once the handler has run for an interim_transcription, no unit that
\* was tracked then is still tracked when a later audio_stream_pcm message is
\* scheduled.
C5_FlushedOnInterim ==
    \A j \in 1..Len(sources) : \A i \in sources[j].tag.tracked :
        sources[i].tag.interims = sources[j].tag.interims

RECURSIVE FramesOf(_, _)
FramesOf(r, box) ==
    IF box = << >> THEN << >>
    ELSE IF Head(box).kind = "binary" /\ Head(box).rec = r
         THEN Head(box).data \o FramesOf(r, Tail(box))
         ELSE FramesOf(r, Tail(box))

\* C7: every binary frame the capture callback sends has exactly the frame
\* size of 1,600 samples.
C7_FramesOfFrameSize ==
    \A k \in 1..Len(outbox) :
        outbox[k].kind = "binary" => Len(outbox[k].data) = FrameSize

\* C8: the binary frames of a recording, concatenated, followed by what is
\* left in the buffer, are the captured samples in capture order (as 16-bit
\* values); what is left is shorter than one frame and is never sent once the
\* recording has stopped.
C8_FramesAreCapturedStream ==
    \A r \in 1..Len(recs) :
        LET sent == FramesOf(r, outbox)
            rest == recs[r].pcmBuffer
        IN  /\ Len(rest) < FrameSize
            /\ Len(sent) + Len(rest) = Len(recs[r].captured)
            /\ \A k \in 1..Len(sent) : sent[k] = Quantize(recs[r].captured[k])
            /\ \A k \in 1..Len(rest) : rest[k] = recs[r].captured[Len(sent) + k]

\* A recording that sent a frame made of more than one batch, and was stopped
\* with a remainder in its buffer.
C8_Witness ==
    \E r \in 1..Len(recs) :
        /\ ~recs[r].connected
        /\ recs[r].phase = "capturing"
        /\ Len(FramesOf(r, outbox)) > SmallBatch
        /\ recs[r].pcmBuffer # << >>
        /\ \E k \in 1..Len(outbox) : outbox[k].kind = "json"

\* C9: no more than reconnectAttempts (10) attempts to reconnect are made
\* without an open in between, and after the last of them a closed channel has
\* no further attempt scheduled.
C9_AtMostTenAttempts ==
    /\ reconnectCount <= 10
    /\ (readyState = "CLOSED" /\ reconnectCount = 10) => ~reconnectTimer

\* Ten attempts were made, the last one was closed abnormally, and nothing
\* more is scheduled.
C9_Witness ==
    /\ readyState = "CLOSED"
    /\ reconnectCount = 10
    /\ lastCloseCode = 1006
    /\ ~reconnectTimer

\* C10: after a closure with code 1000 no attempt to reconnect is scheduled;
\* after a closure with another code one is scheduled, unless the attempts
\* are used up.
C10_ReconnectUnlessNormalClosure ==
    /\ (readyState = "CLOSED" /\ lastCloseCode = 1000) => ~reconnectTimer
    /\ (readyState = "CLOSED" /\ lastCloseCode \in {1001, 1006}) =>
           (reconnectTimer <=> reconnectCount < 10)

\* An attempt to reconnect after an abnormal closure was itself closed with
\* code 1000, and no further attempt is scheduled.
C10_Witness ==
    /\ readyState = "CLOSED"
    /\ lastCloseCode = 1000
    /\ reconnectCount > 0
    /\ ~reconnectTimer

\* The message the handler runs for in this step, when it runs.
Handling(type) ==
    /\ Len(handled') = Len(handled) + 1
    /\ delivered[pendingMessage].type = type

\* C11: no binary frame is handed to the channel while the channel is not
\* open.
C11_NoFrameWhileNotOpen ==
    \A k \in 1..Len(outbox) :
        outbox[k].kind = "binary" => outbox[k].state = "OPEN"

\* C12: handling a voice_response appends two records to the history, the
\* user's transcription and then the assistant's response, clears the interim
\* text and the partial response, and sets the recording state to idle.
C12_VoiceResponseCommitsExchange ==
    [][ Handling("voice_response") =>
          /\ messages' = messages \o
                << [type |-> "user", content |-> delivered[pendingMessage].text],
                   [type |-> "assistant",
                    content |-> delivered[pendingMessage].ai_response] >>
          /\ interimMessage' = << >>
          /\ streamingResponse' = << >>
          /\ recordingState' = "idle" ]_vars

\* A voice_response was handled during a recording, after an interim
\* transcription and a partial response had been shown.
C12_Witness ==
    /\ Len(messages) = 2
    /\ messages[1].type = "user"
    /\ messages[2].type = "assistant"
    /\ interimMessage = << >>
    /\ streamingResponse = << >>
    /\ recordingState = "idle"
    /\ \E i, j, k \in 1..Len(handled) :
         /\ i < k /\ j < k
         /\ delivered[handled[i]].type = "interim_transcription"
         /\ delivered[handled[j]].type = "ai_response_stream"
         /\ ~delivered[handled[j]].is_complete
         /\ delivered[handled[k]].type = "voice_response"
    /\ \E r \in 1..Len(recs) : recs[r].phase = "capturing" /\ ~recs[r].streamLive
    /\ outbox = << >>

\* C13: handling an error message sets the recording state to idle, clears
\* the interim text and the partial response, shows the message, and leaves
\* the history and what was sent to the service as they were.
C13_ServiceErrorAbandonsTurn ==
    [][ Handling("error") =>
          /\ error' = delivered[pendingMessage].text
          /\ recordingState' = "idle"
          /\ interimMessage' = << >>
          /\ streamingResponse' = << >>
          /\ messages' = messages
          /\ outbox' = outbox ]_vars

\* An error message was handled after an interim transcription, with a
\* recording under way.
C13_Witness ==
    /\ error = "Service error"
    /\ recordingState = "idle"
    /\ interimMessage = << >>
    /\ \E i, k \in 1..Len(handled) :
         /\ i < k
         /\ delivered[handled[i]].type = "interim_transcription"
         /\ delivered[handled[k]].type = "error"
    /\ \E r \in 1..Len(recs) : recs[r].connected
    /\ outbox = << >>

\* C14: once user_audio_end has been sent, the client has closed the channel
\* with code 1000.
C14_EndOfSessionClosesChannel ==
    (\E k \in 1..Len(outbox) : outbox[k].kind = "json") =>
        (readyState = "CLOSED" /\ lastCloseCode = NormalClosure)

\* C15: no binary frame of a recording is sent after the user_audio_end of
\* that recording.
C15_NoFrameAfterAudioEnd ==
    \A k, l \in 1..Len(outbox) :
        (k < l /\ outbox[k].kind = "json" /\ outbox[l].kind = "binary")
            => outbox[l].rec # outbox[k].rec

\* C16: while the recording state is not "recording", no microphone stream
\* is live and no capture node is connected.
C16_NothingHeldUnlessRecording ==
    recordingState # "recording" =>
        \A r \in 1..Len(recs) : ~recs[r].streamLive /\ ~recs[r].connected

\* C17: at most one microphone stream is live, and at most one playback
\* context is not closed.
C17_OneStreamOneContext ==
    /\ Cardinality({r \in 1..Len(recs) : recs[r].streamLive}) <= 1
    /\ Cardinality({c \in 1..Len(contexts) : contexts[c].state # "closed"}) <= 1

\* The playback refs a chunk can change.
Scheduling == <<sources, activeSourcesRef, nextPlayTimeRef>>

\* C18: a chunk whose payload does not decode (an odd number of bytes) leaves
\* the sources, the tracking list and nextPlayTimeRef as they were, whether
\* it is dropped in the call or after the wait for resume(); a well-formed
\* chunk handled on a running context is scheduled at the larger of the clock
\* and nextPlayTimeRef, whatever was dropped before it.
C18_BadChunkDropped ==
    [][ /\ (Handling("audio_stream_pcm")
              /\ delivered[pendingMessage].pcm_chunk = OddBytes)
           => Scheduling' = Scheduling
        /\ (/\ Len(pendingPlay') < Len(pendingPlay)
            /\ \A i \in 1..Len(pendingPlay) :
                  pendingPlay[i].pcm = OddBytes
                  \/ \E j \in 1..Len(pendingPlay') : pendingPlay'[j] = pendingPlay[i])
           => Scheduling' = Scheduling
        /\ (/\ Handling("audio_stream_pcm")
            /\ delivered[pendingMessage].pcm_chunk = TwoSamples
            /\ playbackContextRef # NoContext
            /\ contexts[playbackContextRef].state = "running")
           => /\ Len(sources') = Len(sources) + 1
              /\ sources'[Len(sources')].startTime =
                     Max(contexts[playbackContextRef].currentTime, nextPlayTimeRef)
              /\ nextPlayTimeRef' = sources'[Len(sources')].startTime + 4
              /\ activeSourcesRef' = Append(activeSourcesRef, Len(sources')) ]_vars

\* A chunk that does not decode was handled, and a well-formed chunk handled
\* after it is scheduled.
C18_Witness ==
    /\ Len(sources) = 1
    /\ \E i, j \in 1..Len(handled) :
         /\ i < j
         /\ delivered[handled[i]].type = "audio_stream_pcm"
         /\ delivered[handled[i]].pcm_chunk = OddBytes
         /\ delivered[handled[j]].type = "audio_stream_pcm"
         /\ delivered[handled[j]].pcm_chunk = TwoSamples

\* C19: handling an audio_stream_pcm message with an empty payload changes
\* nothing of the playback state (no context is created, nothing is scheduled
\* or suspended, nextPlayTimeRef and the tracking list stay) and leaves the
\* recording state as it was.
C19_EmptyChunkIsNoOp ==
    [][ (Handling("audio_stream_pcm")
           /\ delivered[pendingMessage].pcm_chunk = Empty)
        => UNCHANGED <<playbackVars, recordingState, error>> ]_vars

\* An empty chunk was handled after a well-formed one that is still tracked.
C19_Witness ==
    /\ activeSourcesRef # << >>
    /\ Len(handled) >= 2
    /\ delivered[handled[Len(handled)]].type = "audio_stream_pcm"
    /\ delivered[handled[Len(handled)]].pcm_chunk = Empty
    /\ delivered[handled[Len(handled) - 1]].pcm_chunk = TwoSamples

\* C20: when getUserMedia is rejected, the error is shown, the recording
\* state becomes idle, and nothing is sent and no new attempt is started by
\* that step; the failed attempt stays failed, captures nothing and sends no
\* frame.
C20_CaptureFailureIsFinal ==
    /\ [](\A r \in 1..Len(recs) :
            (recs[r].phase = "failed" /\ ~recs[r].streamLive) =>
                /\ recs[r].captured = << >>
                /\ ~recs[r].connected
                /\ FramesOf(r, outbox) = << >>)
    /\ [][ \A r \in 1..Len(recs) :
             /\ (recs[r].phase = "acquiring" /\ recs'[r].phase = "failed"
                   /\ ~recs'[r].streamLive)
                => /\ error' = "Failed to start recording"
                   /\ recordingState' = "idle"
                   /\ Len(recs') = Len(recs)
                   /\ outbox' = outbox
             /\ recs[r].phase = "failed" => recs'[r].phase = "failed" ]_vars

\* getUserMedia was rejected, and the component is idle with the error shown.
C20_Witness ==
    /\ recordingState = "idle"
    /\ error = "Failed to start recording"
    /\ \E r \in 1..Len(recs) : recs[r].phase = "failed" /\ ~recs[r].streamLive

\* C21: while a call of playPCMChunkScheduled is suspended, no other message
\* has been handled: the one suspended call belongs to the message handled
\* last.
C21_OneMessageInProgress ==
    pendingPlay # << >> =>
        /\ Len(pendingPlay) = 1
        /\ handled # << >>
        /\ delivered[handled[Len(handled)]].type = "audio_stream_pcm"
        /\ delivered[handled[Len(handled)]].pcm_chunk = pendingPlay[1].pcm

\* C23: no source is scheduled by a call that was suspended when stopPlayback
\* ran: every source is scheduled in the flush epoch of its call.
C23_NothingScheduledAcrossFlush ==
    \A i \in 1..Len(sources) : sources[i].callEpoch = sources[i].schedEpoch

\* C24: a chunk starts no earlier than the clock's time at its scheduling and
\* no earlier than the end of the chunk scheduled before it in the same run,
\* and nextPlayTimeRef does not decrease unless stopPlayback or cleanup runs.
C24_NoOverlap ==
    /\ [](\A i \in 1..Len(sources) :
            /\ sources[i].startTime >= sources[i].now
            /\ (i < Len(sources) /\ SameRun(i)) => sources[i + 1].startTime >= End(i))
    /\ [][flushes' = flushes => nextPlayTimeRef' >= nextPlayTimeRef]_vars

\* C25: the first chunk scheduled by a call made after a stopPlayback starts
\* at the time its context's clock shows when it is scheduled.
C25_FirstAfterFlushStartsNow ==
    \A i \in 1..Len(sources) :
        (/\ sources[i].callEpoch > 0
         /\ \A j \in 1..(i - 1) : sources[j].callEpoch < sources[i].callEpoch)
        => sources[i].startTime = sources[i].now

\* The sources scheduled since the last stopPlayback or cleanup whose onended
\* has not run, in the order they were scheduled.
RECURSIVE LiveSince(_, _)
LiveSince(n, epoch) ==
    IF n = 0 THEN << >>
    ELSE IF sources[n].schedEpoch = epoch /\ ~sources[n].notified
         THEN Append(LiveSince(n - 1, epoch), n)
         ELSE LiveSince(n - 1, epoch)

\* C26: the tracking list holds exactly the sources scheduled since the last
\* stopPlayback or cleanup whose onended has not run; when onended runs for a
\* source, that source alone leaves the list (none, if it was flushed before)
\* and nextPlayTimeRef stays.
C26_TrackingIsLiveSources ==
    /\ [](activeSourcesRef = LiveSince(Len(sources), flushes))
    /\ [][ \A i \in 1..Len(sources) :
             (~sources[i].notified /\ sources'[i].notified) =>
                /\ activeSourcesRef' = SelectSeq(activeSourcesRef, LAMBDA k : k # i)
                /\ nextPlayTimeRef' = nextPlayTimeRef ]_vars

\* onended has run for a source that stopPlayback had stopped, while a source
\* scheduled after the flush is tracked; and onended has run for a source
\* that played to its end.
C26_Witness ==
    /\ flushes = 1
    /\ mounted
    /\ activeSourcesRef # << >>
    /\ \E i \in 1..Len(sources) :
         sources[i].status = "stopped" /\ sources[i].notified

\* The state stopPlayback leaves: nothing tracked, nextPlayTimeRef reset, no
\* context.
Flushed ==
    /\ activeSourcesRef = << >>
    /\ nextPlayTimeRef = 0
    /\ playbackContextRef = NoContext

\* C22 as stated: a call of stopPlayback made while no source is tracked
\* changes nothing of the playback state.
C22_StopWithNothingScheduledIsNoOp ==
    [][(flushes' = flushes + 1 /\ activeSourcesRef = << >>)
         => UNCHANGED <<activeSourcesRef, nextPlayTimeRef, playbackContextRef,
                        contexts, sources>>]_vars

\* C22 amended: every call of stopPlayback ends with nothing tracked,
\* nextPlayTimeRef at 0 and no context, and a call made in that state changes
\* nothing; so a second call in succession changes nothing.
C22_StopPlaybackIdempotent ==
    [][flushes' = flushes + 1
         => /\ Flushed'
            /\ Flushed => UNCHANGED <<activeSourcesRef, nextPlayTimeRef,
                                      playbackContextRef, contexts, sources,
                                      pendingPlay>>]_vars

\* stopPlayback has run twice after the only chunk was scheduled, with no
\* call of playPCMChunkScheduled in between or after.
C22_Witness ==
    /\ flushes = 2
    /\ Flushed
    /\ pendingPlay = << >>
    /\ sources # << >>
    /\ \A i \in 1..Len(sources) : sources[i].schedEpoch = 0 /\ sources[i].status = "stopped"
    /\ calls = Len(sources)

\* C27: when stop() throws for some tracked sources during stopPlayback or
\* cleanup, every other tracked source is stopped all the same, the tracking
\* list is emptied, and stopPlayback resets nextPlayTimeRef.
C27_ThrowDoesNotEndTheFlush ==
    [][flushes' = flushes + 1
         => /\ \A i \in TrackedSources(activeSourcesRef) :
                 sources'[i].status \in {"stopped", "threw"}
            /\ activeSourcesRef' = << >>
            /\ mounted' => nextPlayTimeRef' = 0]_vars

\* stopPlayback ran with two sources tracked; stop() threw for the first and
\* the second was stopped.
C27_Witness ==
    /\ mounted
    /\ Flushed
    /\ \E i, j \in 1..Len(sources) :
         /\ i < j
         /\ sources[i].status = "threw"
         /\ sources[j].status = "stopped"
         /\ sources[i].schedEpoch = sources[j].schedEpoch

\* C28: a binary frame is handed to the channel only in a state whose
\* recording state is "recording".
C28_FramesOnlyWhileRecording ==
    [][(/\ Len(outbox') = Len(outbox) + 1
        /\ outbox'[Len(outbox')].kind = "binary")
         => recordingState = "recording"]_vars

\* The answers the handler has run for.
AnswersHandled ==
    Len(SelectSeq(handled,
                  LAMBDA i : delivered[i].type \in {"voice_response", "error"}))

\* C29: while the recording state is "processing", the channel is open, a
\* user_audio_end was handed to it while it was open, and fewer answers
\* (voice_response or error) have been handled than user_audio_end sent.
C29_ProcessingAwaitsAnAnswer ==
    recordingState = "processing" =>
        /\ readyState = "OPEN"
        /\ Len(AudioEnds(outbox)) > AnswersHandled

\* C30: when the service answers every user_audio_end, every "processing"
\* state in which the channel has not closed is followed by an "idle" state.
C30_ProcessingEnds ==
    (recordingState = "processing" /\ readyState # "CLOSED")
        ~> (recordingState = "idle")

\* C31: when a voice_response is handled after the user_audio_end of an
\* earlier recording was sent and while a later recording is capturing, the
\* later recording stays connected and the recording state stays
\* "recording".
C31_VoiceResponseSparesLaterRecording ==
    [][ \A r \in 1..Len(recs) :
          (/\ Handling("voice_response")
           /\ recordingState = "recording"
           /\ recs[r].connected
           /\ r = Len(recs)
           /\ \E k \in 1..Len(outbox) :
                /\ outbox[k].kind = "json"
                /\ outbox[k].rec < r)
          => /\ recs'[r].connected
             /\ recordingState' = "recording" ]_vars

\* The sockets of the hand-rolled channel that are connecting or open.
LiveSockets ==
    {i \in 1..Len(wsRef.sockets) : wsRef.sockets[i] \in {"CONNECTING", "OPEN"}}

\* C32: in the hand-rolled channel at most one WebSocket is connecting or
\* open.
C32_AtMostOneLiveSocket == Cardinality(LiveSockets) <= 1

NotConnected == "WebSocket not connected. Please wait and try again."

\* C33: a recording begins only in a step from the idle state with the
\* channel open; startRecording called in another recording state changes
\* nothing; called in the idle state with the channel not open it sets the
\* not-connected error, leaves the state idle and starts no acquisition.
C33_StartOnlyWhenIdleAndOpen ==
    /\ [][ Len(recs') > Len(recs) =>
             /\ recordingState = "idle"
             /\ readyState = "OPEN"
             /\ recordingState' = "recording" ]_vars
    /\ [][ (StartRecording /\ recordingState # "idle") => UNCHANGED vars ]_vars
    /\ [][ (StartRecording /\ recordingState = "idle" /\ readyState # "OPEN") =>
             /\ error' = NotConnected
             /\ recordingState' = "idle"
             /\ UNCHANGED <<recordingVars, playbackVars, channelVars, inboundVars,
                            readyState>> ]_vars

\* startRecording was refused for a channel that is not open, after an
\* earlier recording had begun while it was open.
C33_Witness ==
    /\ error = NotConnected
    /\ recordingState = "idle"
    /\ readyState # "OPEN"
    /\ Len(recs) = 1
    /\ \A r \in 1..Len(recs) : recs[r].seenReadyState = "OPEN"

\* C34: every step in which the channel closes and every onError step ends
\* with the recording state idle; onError also sets the connection error, and
\* every step in which the channel opens clears the error.
C34_TransportEventsResetState ==
    /\ [][ (readyState # "CLOSED" /\ readyState' = "CLOSED") =>
             recordingState' = "idle" ]_vars
    /\ [][ SocketErrors =>
             /\ recordingState' = "idle"
             /\ error' = "Connection error" ]_vars
    /\ [][ (readyState # "OPEN" /\ readyState' = "OPEN") => error' = NoError ]_vars

\* A transport error arrived while the only recording was "processing": its
\* user_audio_end had been sent, the state is idle and the error is shown.
C34_Witness ==
    /\ recordingState = "idle"
    /\ error = "Connection error"
    /\ Len(recs) = 1
    /\ AudioEnds(outbox) # << >>

\* C35: handling an interim_transcription sets the interim text to the text
\* of that message and changes nothing else: nothing is sent, and the
\* recording state, the error, the history, the partial response and the
\* playback state stay as they were.
C35_InterimOnlyReplacesInterimText ==
    [][ Handling("interim_transcription") =>
          /\ interimMessage' = <<delivered[pendingMessage].text>>
          /\ UNCHANGED <<playbackVars, appVars, recordingVars, streamingResponse,
                         messages>> ]_vars

\* An interim transcription was handled while a partial response was on
\* display and a chunk of response audio was tracked.
C35_Witness ==
    /\ handled # << >>
    /\ delivered[handled[Len(handled)]].type = "interim_transcription"
    /\ interimMessage = <<delivered[handled[Len(handled)]].text>>
    /\ streamingResponse # << >>
    /\ activeSourcesRef # << >>

\* The partial response text after the first n messages of ms: the contents
\* of the ai_response_stream messages that are not complete, in order, since
\* the last complete one, voice_response or error.
RECURSIVE PartialText(_, _)
PartialText(ms, n) ==
    IF n = 0 THEN << >>
    ELSE IF ms[n].type = "ai_response_stream" /\ ~ms[n].is_complete
         THEN PartialText(ms, n - 1) \o ms[n].text
    ELSE IF ms[n].type \in {"ai_response_stream", "voice_response", "error"}
         THEN << >>
    ELSE PartialText(ms, n - 1)

RECURSIVE Exchanges(_)
Exchanges(n) ==
    IF n = 0 THEN << >>
    ELSE IF delivered[handled[n]].type = "voice_response"
         THEN Exchanges(n - 1) \o
                << [type |-> "user", content |-> delivered[handled[n]].text],
                   [type |-> "assistant",
                    content |-> delivered[handled[n]].ai_response] >>
         ELSE Exchanges(n - 1)

AudioEndsOf(r) ==
    {k \in 1..Len(outbox) : outbox[k].kind = "json" /\ outbox[k].rec = r}

\* The binary frames of call r, as positions in the outbox.
FramePositions(r) ==
    {k \in 1..Len(outbox) : outbox[k].kind = "binary" /\ outbox[k].rec = r}

\* The number of samples of its file that call r has sent.
SentOf(r) ==
    IF recs[r].phase \in {"loading", "failed"} THEN 0
    ELSE IF recs[r].i + FrameSize <= Len(recs[r].pcmArray)
         THEN recs[r].i + FrameSize
         ELSE Len(recs[r].pcmArray)

\* C38: the frames a call of sendTestAudio has sent are, put together in
\* order, the samples of the file up to where the call has got, each frame of
\* FrameSize samples (the last one of the file may be shorter); when the call
\* is over the whole file was sent and exactly one user_audio_end follows
\* the last frame, and before that none; nothing in the outbox is of a call
\* made while the channel was not open.
C38_TestAudioSentInOrder ==
    /\ \A k \in 1..Len(outbox) : outbox[k].rec \in 1..Len(recs)
    /\ \A r \in 1..Len(recs) :
            /\ recs[r].seenReadyState = "OPEN"
            /\ FramesOf(r, outbox) = SubSeq(recs[r].pcmArray, 1, SentOf(r))
            /\ \A k \in FramePositions(r) :
                  \/ Len(outbox[k].data) = FrameSize
                  \/ /\ Len(outbox[k].data) \in 1..(FrameSize - 1)
                     /\ \A j \in FramePositions(r) : j <= k
                     /\ SentOf(r) = Len(recs[r].pcmArray)
            /\ Cardinality(AudioEndsOf(r)) = (IF recs[r].phase = "done" THEN 1 ELSE 0)
            /\ recs[r].phase = "done" =>
                  /\ SentOf(r) = Len(recs[r].pcmArray)
                  /\ \A e \in AudioEndsOf(r), k \in FramePositions(r) : k < e

\* A call is over for the file of one chunk and a rest: two frames, the
\* last one short, and its user_audio_end; the channel closed on the way.
C38_Witness ==
    /\ readyState = "CLOSED"
    /\ \E r \in 1..Len(recs) :
         /\ recs[r].phase = "done"
         /\ Len(recs[r].pcmArray) = FrameSize + 10
         /\ Cardinality(FramePositions(r)) = 2
         /\ Cardinality(AudioEndsOf(r)) = 1

=============================================================================
